---- MODULE Spec2Model ----
(***************************************************************************)
(* Elym: a fluent wrapper over DOM elements (src/src/elym/elym.ts).        *)
(*                                                                         *)
(* The state is the DOM the wrappers act on (the nodes, their tags, the    *)
(* ordered children of every node, the native listener list of every      *)
(* node), the private fields of every Elym instance (#root, #nodes,        *)
(* #eventListeners, #data) and the static WeakMap Elym.instances.          *)
(* Every public method is one action; an action that throws keeps the     *)
(* writes it made before the throw and records the error in last.         *)
(***************************************************************************)
EXTENDS Integers, Sequences, FiniteSets, TLC

\* ------------------------------------------------------------------ bounds
MaxNodes == 6
MaxWrappers == 3
MaxOps == 3

\* ------------------------------------------------------------------ values
Doc == 0
NoParent == -1
NoWrapper == 0

Node == 1..MaxNodes
Wrapper == 1..MaxWrappers

Selectors == {"li", "span"}
AppendTags == {"span"}
Callbacks == {"f", "g"}

\* Event specs are strings; a string is a sequence of one-character strings.
EventSpecs == { <<"c">>, <<"c", ".", "n">>, <<"k", ".", "n">> }

Datasets == { <<"a">>, <<"b", "a">> }

EmptyMap == [x \in {} |-> 0]

\* What an element carries besides its tag and children: its attributes, its
\* class list and its inline style declarations.
NoProps == [attrs |-> EmptyMap, classes |-> <<>>, style |-> EmptyMap]

\* Markup is a sequence of tokens: opening tags (with the element's
\* attributes), closing tags and text.
Open(t) == [kind |-> "open", tag |-> t, props |-> NoProps, text |-> <<>>]
Close(t) == [kind |-> "close", tag |-> t, props |-> NoProps, text |-> <<>>]
TextToken(s) == [kind |-> "text", tag |-> "", props |-> NoProps, text |-> s]

\* Markup strings, as the sequence of their tags: "" and "<li></li>".
Templates == { <<>>, <<Open("li"), Close("li")>> }

TempRootMarkup == <<Open("div"), Close("div")>>

Range(s) == { s[i] : i \in DOMAIN s }
MapSet(m, k, v) == [x \in (DOMAIN m) \cup {k} |-> IF x = k THEN v ELSE m[x]]
MapDel(m, k) == [x \in (DOMAIN m) \ {k} |-> m[x]]

\* Attribute names, string values, CSS properties and class names the calls
\* are made with. A string value is a sequence of characters.
AttrNames == {"id", "ID"}
Values == {<<>>, <<"x">>}
StyleProps == {"color"}
ClassNames == {"a"}

VARIABLES
  nNodes,          \* number of DOM nodes created so far
  tag,             \* tag[n]: tag name of node n ("" before n is created)
  kids,            \* kids[p]: ordered children of p; kids[Doc]: children of document.body
  props,           \* props[n]: attributes, class list and inline style of n
  text,            \* text[n]: the text n holds itself (a string: a sequence of characters)
  native,          \* native[n]: the event listener list of n, {type, cb, capture}
  nWrappers,       \* number of Elym instances created so far
  root,            \* root[w]: #root
  nodes,           \* nodes[w]: #nodes
  eventListeners,  \* eventListeners[w]: #eventListeners, node -> (key -> callbacks)
  data,            \* data[w]: #data, node -> value
  instances,       \* Elym.instances, node -> wrapper (NoWrapper: no entry)
  ops,             \* number of calls made
  last             \* the last call: its name, receiver, arguments, result

\* What the nodes hold besides their place in the tree.
content == <<props, text>>

vars == <<nNodes, tag, kids, props, text, native, nWrappers, root, nodes,
          eventListeners, data, instances, ops, last>>

\* A call record: the method, the receiver and its selection when called (with
\* the parent and the registered wrapper each selected node then had), the
\* arguments (arg: the selector or tag name), the wrapper returned and the
\* error thrown.
\* What a call hands back when it is not a wrapper: undefined, null, a string
\* or a boolean.
Undefined == [kind |-> "undefined", s |-> <<>>, b |-> FALSE]
Null == [kind |-> "null", s |-> <<>>, b |-> FALSE]
Str(s) == [kind |-> "string", s |-> s, b |-> FALSE]
Bool(b) == [kind |-> "boolean", s |-> <<>>, b |-> b]
This == [kind |-> "Elym", s |-> <<>>, b |-> FALSE]

NoCall == [op |-> "none", w |-> NoWrapper, sel |-> <<>>, parents |-> <<>>,
           owners |-> <<>>, ev |-> <<>>, cb |-> "", capture |-> FALSE,
           els |-> <<>>, ret |-> NoWrapper, err |-> "none", arg |-> "",
           argc |-> 0, value |-> <<>>, flag |-> FALSE,
           out |-> Undefined, dataset |-> <<>>, log |-> <<>>,
           duration |-> 0, properties |-> EmptyMap]

\* ------------------------------------------------------------------ DOM
\* node.parentNode in the tree kd
ParentIn(kd, n) ==
  IF \E p \in 0..MaxNodes : n \in Range(kd[p])
  THEN CHOOSE p \in 0..MaxNodes : n \in Range(kd[p])
  ELSE NoParent

Parent(n) == ParentIn(kids, n)

RemoveFrom(s, n) == SelectSeq(s, LAMBDA x : x # n)

\* node.remove(): take n out of its parent's children.
DetachNothing(kd, n) == kd
Detach(kd, n) == [p \in DOMAIN kd |-> RemoveFrom(kd[p], n)]

\* parent.appendChild(n): n leaves its previous parent and becomes the last child.
AppendChild(kd, p, n) == [Detach(kd, n) EXCEPT ![p] = Append(@, n)]

RECURSIVE Flatten(_)
Flatten(ss) == IF ss = <<>> THEN <<>> ELSE Head(ss) \o Flatten(Tail(ss))

\* The descendants of p in document order (p itself excluded).
RECURSIVE Descendants(_, _)
Descendants(kd, p) ==
  Flatten([i \in DOMAIN kd[p] |-> <<kd[p][i]>> \o Descendants(kd, kd[p][i])])

\* element.querySelectorAll(selector), the selector being a tag name.
RECURSIVE Reverse(_)
Reverse(q) == IF q = <<>> THEN <<>> ELSE Append(Reverse(Tail(q)), Head(q))
QuerySelectorAllReversed(p, selector) ==
  Reverse(SelectSeq(Descendants(kids, p), LAMBDA n : tag[n] = selector))
QuerySelectorAll(p, selector) ==
  SelectSeq(Descendants(kids, p), LAMBDA n : tag[n] = selector)

\* element.outerHTML
RECURSIVE OuterHTML(_)
OuterHTML(n) ==
  <<[Open(tag[n]) EXCEPT !.props = props[n]]>>
    \o (IF text[n] # <<>> THEN <<TextToken(text[n])>> ELSE <<>>)
    \o Flatten([i \in DOMAIN kids[n] |-> OuterHTML(kids[n][i])])
    \o <<Close(tag[n])>>

\* The number of elements the parser creates for the first top-level element.
RECURSIVE ElementCount(_, _, _)
ElementCount(toks, i, depth) ==
  IF i > Len(toks) \/ (depth = 0 /\ i > 1) THEN 0
  ELSE IF toks[i].kind = "open" THEN 1 + ElementCount(toks, i + 1, depth + 1)
  ELSE IF toks[i].kind = "close" THEN ElementCount(toks, i + 1, depth - 1)
  ELSE ElementCount(toks, i + 1, depth)

\* createContextualFragment(markup).firstElementChild: the nodes of the first
\* top-level element are created after node `next`; the rest of the markup is dropped.
RECURSIVE ParseTokens(_, _, _, _, _, _, _, _)
ParseTokens(toks, i, stack, next, tg, kd, pr, tx) ==
  IF i > Len(toks) \/ (stack = <<>> /\ i > 1)
  THEN [tag |-> tg, kids |-> kd, props |-> pr, text |-> tx, next |-> next]
  ELSE IF toks[i].kind = "open"
  THEN LET id == next + 1
           kd2 == IF stack = <<>> THEN kd
                  ELSE [kd EXCEPT ![Head(stack)] = Append(@, id)]
       IN ParseTokens(toks, i + 1, <<id>> \o stack, id,
                      [tg EXCEPT ![id] = toks[i].tag], kd2,
                      [pr EXCEPT ![id] = toks[i].props], tx)
  ELSE IF toks[i].kind = "close"
  THEN ParseTokens(toks, i + 1, Tail(stack), next, tg, kd, pr, tx)
  ELSE ParseTokens(toks, i + 1, stack, next, tg, kd, pr,
                   IF stack = <<>> THEN tx
                   ELSE [tx EXCEPT ![Head(stack)] = @ \o toks[i].text])

\* addEventListener: the listener list holds at most one listener per
\* (type, callback, capture).
AddEventListener(nat, n, type, cb, capture) ==
  [nat EXCEPT ![n] = @ \cup {[type |-> type, cb |-> cb, capture |-> capture]}]

\* removeEventListener(type, cb) with no options removes the non-capture listener.
RemoveEventListener(nat, n, type, cb) ==
  [nat EXCEPT ![n] = @ \ {[type |-> type, cb |-> cb, capture |-> FALSE]}]

RECURSIVE AncestorsIn(_, _)
AncestorsIn(kd, n) ==
  LET p == ParentIn(kd, n) IN IF p \in Node THEN {p} \cup AncestorsIn(kd, p) ELSE {}

Ancestors(n) == AncestorsIn(kids, n)

\* node.dispatchEvent(new Event(type)) with the listener lists nat in the tree
\* kd: the callbacks invoked, those of the target and the capturing ones of
\* its ancestors.
DispatchIn(nat, kd, n, type) ==
  { l.cb : l \in { x \in nat[n] : x.type = type } }
  \cup { l.cb : l \in { x \in UNION { nat[a] : a \in AncestorsIn(kd, n) } :
                         x.type = type /\ x.capture } }

Dispatch(n, type) == DispatchIn(native, kids, n, type)

\* ------------------------------------------------------------------ strings
\* String.prototype.split(".")
RECURSIVE Split(_)
Split(s) ==
  IF \E i \in DOMAIN s : s[i] = "."
  THEN LET i == CHOOSE j \in DOMAIN s :
                  s[j] = "." /\ \A k \in 1..(j - 1) : s[k] # "."
       IN <<SubSeq(s, 1, i - 1)>> \o Split(SubSeq(s, i + 1, Len(s)))
  ELSE <<s>>

EventType(event) == Split(event)[1]
\* The second element of the split, undefined (here the empty string) when absent.
Namespace(event) == IF Len(Split(event)) >= 2 THEN Split(event)[2] ELSE <<>>

StartsWith(s, p) == Len(p) <= Len(s) /\ SubSeq(s, 1, Len(p)) = p
EndsWith(s, p) == Len(p) <= Len(s) /\ SubSeq(s, Len(s) - Len(p) + 1, Len(s)) = p

\* ------------------------------------------------------------------ Init
\* The state after `elym = new Elym("<ul><li></li><li></li></ul>")` in an
\* empty document: node 1 is the <ul>, nodes 2 and 3 its <li> children.
ListMarkup ==
  <<Open("ul"), Open("li"), Close("li"), Open("li"), Close("li"), Close("ul")>>

Init ==
  LET p == ParseTokens(ListMarkup, 1, <<>>, 0, [n \in Node |-> ""],
                       [q \in 0..MaxNodes |-> <<>>], [n \in Node |-> NoProps],
                       [n \in Node |-> <<>>])
  IN /\ nNodes = p.next
     /\ tag = p.tag
     /\ kids = p.kids
     /\ props = p.props
     /\ text = p.text
     /\ native = [n \in Node |-> {}]
     /\ nWrappers = 1
     /\ root = [w \in Wrapper |-> IF w = 1 THEN 1 ELSE 0]
     /\ nodes = [w \in Wrapper |-> IF w = 1 THEN <<1>> ELSE <<>>]
     /\ eventListeners = [w \in Wrapper |-> EmptyMap]
     /\ data = [w \in Wrapper |-> EmptyMap]
     /\ instances = [n \in Node |-> IF n = 1 THEN 1 ELSE NoWrapper]
     /\ ops = 0
     /\ last = [NoCall EXCEPT !.op = "new", !.ret = 1]

Live == 1..nWrappers
Created == 1..nNodes

\* ------------------------------------------------------------------ constructor
\* new Elym(htmlTemplate)
Construct(tpl) ==
  /\ ops < MaxOps
  /\ ops' = ops + 1
  /\ IF tpl = <<>>
     THEN /\ last' = [NoCall EXCEPT !.op = "new", !.err = "Invalid HTML"]
          /\ UNCHANGED <<content, nNodes, tag, kids, native, nWrappers, root, nodes,
                         eventListeners, data, instances>>
     ELSE /\ nWrappers < MaxWrappers
          /\ nNodes + ElementCount(tpl, 1, 0) <= MaxNodes
          /\ LET p == ParseTokens(tpl, 1, <<>>, nNodes, tag, kids, props, text)
                 r == nNodes + 1
                 w == nWrappers + 1
             IN /\ nNodes' = p.next
                /\ tag' = p.tag
                /\ kids' = p.kids
                /\ props' = p.props
                /\ text' = p.text
                /\ nWrappers' = w
                /\ root' = [root EXCEPT ![w] = r]
                /\ nodes' = [nodes EXCEPT ![w] = <<r>>]
                /\ instances' = [instances EXCEPT ![r] = w]
                /\ last' = [NoCall EXCEPT !.op = "new", !.ret = w]
          /\ UNCHANGED <<native, eventListeners, data>>

\* ------------------------------------------------------------------ static factories
\* The nodes a caller can hold: those of a wrapper, and all that hang in a tree
\* with them or in the document.
Held == UNION { {root[w]} \cup Range(nodes[w]) : w \in Live }
Obtainable ==
  { n \in Created :
      \/ n \in Held
      \/ Ancestors(n) \cap Held # {}
      \/ \E h \in Held : n \in Range(Descendants(kids, h))
      \/ n \in Range(Descendants(kids, Doc)) }

\* The argument lists of fromElement: none, one or two distinct elements.
ElementLists ==
  {<<>>} \cup { <<a>> : a \in Obtainable }
         \cup { <<x[1], x[2]>> : x \in { y \in Obtainable \X Obtainable : y[1] # y[2] } }

\* instance.#nodes.forEach((node) => Elym.instances.set(node, instance))
RegisterOnly(inst, els, w) ==
  [n \in Node |-> IF n \in Range(els) THEN w ELSE NoWrapper]
RegisterFirst(inst, els, w) ==
  [n \in Node |-> IF n = els[1] THEN w ELSE inst[n]]
Register(inst, els, w) ==
  [n \in Node |-> IF n \in Range(els) THEN w ELSE inst[n]]

\* Elym.fromElement(...elements), called on the DOM (n0, tg0, kd0): the
\* wrapper is built around a temporary <div> root, then re-pointed.
FromElement(call, els, n0, tg0, kd0) ==
  IF Len(els) = 0
  THEN /\ last' = [call EXCEPT !.err = "At least one element must be provided"]
       /\ nNodes' = n0 /\ tag' = tg0 /\ kids' = kd0
       /\ UNCHANGED <<props, text, nWrappers, root, nodes, instances>>
  ELSE /\ nWrappers < MaxWrappers
       /\ n0 + ElementCount(TempRootMarkup, 1, 0) <= MaxNodes
       /\ LET p == ParseTokens(TempRootMarkup, 1, <<>>, n0, tg0, kd0, props, text)
              tmp == n0 + 1
              w == nWrappers + 1
          IN /\ nNodes' = p.next
             /\ tag' = p.tag
             /\ kids' = p.kids
             /\ props' = p.props
             /\ text' = p.text
             /\ nWrappers' = w
             /\ root' = [root EXCEPT ![w] = els[1]]
             /\ nodes' = [nodes EXCEPT ![w] = els]
             /\ instances' = Register([instances EXCEPT ![tmp] = w], els, w)
             /\ last' = [call EXCEPT !.ret = w]

\* Elym.fromElement(...elements)
FromElementCall(els) ==
  /\ ops < MaxOps
  /\ ops' = ops + 1
  /\ FromElement([NoCall EXCEPT !.op = "fromElement", !.els = els,
                                !.owners = [i \in DOMAIN els |-> instances[els[i]]]],
                 els, nNodes, tag, kids)
  /\ UNCHANGED <<native, eventListeners, data>>

\* Elym.select(selector)
Select(selector) ==
  /\ ops < MaxOps
  /\ ops' = ops + 1
  /\ LET found == QuerySelectorAll(Doc, selector)
         call == [NoCall EXCEPT !.op = "select", !.arg = selector]
     IN IF found = <<>>
        THEN /\ last' = [call EXCEPT !.err = "No element found for selector"]
             /\ UNCHANGED <<nNodes, tag, kids, props, text, nWrappers, root, nodes,
                            instances>>
        ELSE FromElement([call EXCEPT !.els = <<found[1]>>], <<found[1]>>,
                         nNodes, tag, kids)
  /\ UNCHANGED <<native, eventListeners, data>>

\* Elym.selectAll(selector)
SelectAll(selector) ==
  /\ ops < MaxOps
  /\ ops' = ops + 1
  /\ LET found == QuerySelectorAll(Doc, selector)
     IN FromElement([NoCall EXCEPT !.op = "selectAll", !.els = found,
                                   !.arg = selector], found,
                    nNodes, tag, kids)
  /\ UNCHANGED <<native, eventListeners, data>>

\* ------------------------------------------------------------------ selection
Call(op, w) ==
  [NoCall EXCEPT !.op = op, !.w = w, !.sel = nodes[w], !.ret = w,
                 !.parents = [i \in DOMAIN nodes[w] |-> Parent(nodes[w][i])],
                 !.owners = [i \in DOMAIN nodes[w] |-> instances[nodes[w][i]]]]

\* selectChild(selector)
SelectChild(w, selector) ==
  /\ ops < MaxOps
  /\ ops' = ops + 1
  /\ LET found == QuerySelectorAll(root[w], selector)
     IN nodes' = IF found # <<>> THEN [nodes EXCEPT ![w] = <<found[1]>>] ELSE nodes
  /\ last' = [Call("selectChild", w) EXCEPT !.arg = selector]
  /\ UNCHANGED <<content, nNodes, tag, kids, native, nWrappers, root, eventListeners,
                 data, instances>>

\* selectChildren(selector)
SelectChildren(w, selector) ==
  /\ ops < MaxOps
  /\ ops' = ops + 1
  /\ nodes' = [nodes EXCEPT ![w] = QuerySelectorAll(root[w], selector)]
  /\ last' = [Call("selectChildren", w) EXCEPT !.arg = selector]
  /\ UNCHANGED <<content, nNodes, tag, kids, native, nWrappers, root, eventListeners,
                 data, instances>>

\* backToRoot()
BackToRoot(w) ==
  /\ ops < MaxOps
  /\ ops' = ops + 1
  /\ nodes' = [nodes EXCEPT ![w] = <<root[w]>>]
  /\ last' = Call("backToRoot", w)
  /\ UNCHANGED <<content, nNodes, tag, kids, native, nWrappers, root, eventListeners,
                 data, instances>>

\* ------------------------------------------------------------------ tree placement
RECURSIVE AppendAll(_, _, _, _)
AppendAll(kd, p, sel, i) ==
  IF i > Len(sel) THEN kd ELSE AppendAll(AppendChild(kd, p, sel[i]), p, sel, i + 1)

\* appendTo(document.body): the parent is a raw element, each selected node is
\* appended to it in turn.
AppendToBody(w) ==
  /\ ops < MaxOps
  /\ ops' = ops + 1
  /\ kids' = AppendAll(kids, Doc, nodes[w], 1)
  /\ last' = Call("appendTo", w)
  /\ UNCHANGED <<content, nNodes, tag, native, nWrappers, root, nodes, eventListeners,
                 data, instances>>

\* append(tagName): one new element per selected node, then fromElement on them.
RECURSIVE AppendNewToFirst(_, _, _, _, _)
AppendNewToFirst(st, sel, i, tagName, made) ==
  IF i > Len(sel) THEN [tag |-> st.tag, kids |-> st.kids, next |-> st.next, made |-> made]
  ELSE LET id == st.next + 1
       IN AppendNewToFirst([tag |-> [st.tag EXCEPT ![id] = tagName],
                            kids |-> [st.kids EXCEPT ![sel[1]] = Append(@, id)],
                            next |-> id],
                           sel, i + 1, tagName, Append(made, id))
RECURSIVE AppendNew(_, _, _, _, _)
AppendNew(st, sel, i, tagName, made) ==
  IF i > Len(sel) THEN [tag |-> st.tag, kids |-> st.kids, next |-> st.next, made |-> made]
  ELSE LET id == st.next + 1
       IN AppendNew([tag |-> [st.tag EXCEPT ![id] = tagName],
                     kids |-> [st.kids EXCEPT ![sel[i]] = Append(@, id)],
                     next |-> id],
                    sel, i + 1, tagName, Append(made, id))

AppendTag(w, tagName) ==
  /\ ops < MaxOps
  /\ ops' = ops + 1
  /\ nNodes + Len(nodes[w]) <= MaxNodes
  /\ LET a == AppendNew([tag |-> tag, kids |-> kids, next |-> nNodes],
                        nodes[w], 1, tagName, <<>>)
     IN FromElement([Call("append", w) EXCEPT !.els = a.made, !.ret = NoWrapper,
                                           !.arg = tagName],
                    a.made, a.next, a.tag, a.kids)
  /\ UNCHANGED <<native, eventListeners, data>>

\* ------------------------------------------------------------------ listeners
\* The key a registration is recorded under: `${eventType}.${namespace}`, or
\* the bare type when the namespace is undefined or empty.
EventKey(event) ==
  IF Namespace(event) # <<>>
  THEN EventType(event) \o <<".">> \o Namespace(event)
  ELSE EventType(event)

\* The body of on()'s forEach for one node; em is this wrapper's #eventListeners.
OnNode(st, n, event, cb, capture) ==
  LET em == IF n \in DOMAIN st.em THEN st.em[n] ELSE EmptyMap
      key == EventKey(event)
      old == IF key \in DOMAIN em THEN em[key] ELSE <<>>
  IN [nat |-> AddEventListener(st.nat, n, EventType(event), cb, capture),
      em |-> MapSet(st.em, n, MapSet(em, key, Append(old, cb)))]

RECURSIVE OnNodes(_, _, _, _, _, _)
OnNodes(st, sel, i, event, cb, capture) ==
  IF i > Len(sel) THEN st
  ELSE OnNodes(OnNode(st, sel[i], event, cb, capture), sel, i + 1, event, cb, capture)

\* on(event, callback, options), options being a capture flag
On(w, event, cb, capture) ==
  /\ ops < MaxOps
  /\ ops' = ops + 1
  /\ LET r == OnNodes([nat |-> native, em |-> eventListeners[w]], nodes[w], 1,
                      event, cb, capture)
     IN /\ native' = r.nat
        /\ eventListeners' = [eventListeners EXCEPT ![w] = r.em]
  /\ last' = [Call("on", w) EXCEPT !.ev = event, !.cb = cb, !.capture = capture]
  /\ UNCHANGED <<content, nNodes, tag, kids, nWrappers, root, nodes, data, instances>>

\* removeEventListener(type, cb) for every callback of the list cbs
RECURSIVE RemoveCallbacks(_, _, _, _, _)
RemoveCallbacks(nat, n, type, cbs, i) ==
  IF i > Len(cbs) THEN nat
  ELSE RemoveCallbacks(RemoveEventListener(nat, n, type, cbs[i]), n, type, cbs, i + 1)

\* The keys off(event) with a namespace deletes.
MatchedKeys(em, event) ==
  { key \in DOMAIN em :
      /\ StartsWith(key, EventType(event) \o <<".">>)
      /\ EndsWith(key, <<".">> \o Namespace(event)) }

RECURSIVE RemoveKeys(_, _, _, _, _)
RemoveKeys(nat, n, type, em, keys) ==
  IF keys = {} THEN nat
  ELSE LET key == CHOOSE k \in keys : TRUE
       IN RemoveKeys(RemoveCallbacks(nat, n, type, em[key], 1), n, type, em,
                     keys \ {key})

\* The body of off()'s forEach for one node.
OffNode(st, n, event) ==
  IF n \notin DOMAIN st.em THEN st
  ELSE LET em == st.em[n]
           type == EventType(event)
       IN IF Namespace(event) # <<>>
          THEN LET keys == MatchedKeys(em, event)
               IN [nat |-> RemoveKeys(st.nat, n, type, em, keys),
                   em |-> [st.em EXCEPT ![n] = [k \in (DOMAIN em) \ keys |-> em[k]]]]
          ELSE [nat |-> IF type \in DOMAIN em
                        THEN RemoveCallbacks(st.nat, n, type, em[type], 1)
                        ELSE st.nat,
                em |-> [st.em EXCEPT ![n] = MapDel(em, type)]]

RECURSIVE OffNodes(_, _, _, _)
OffNodes(st, sel, i, event) ==
  IF i > Len(sel) THEN st ELSE OffNodes(OffNode(st, sel[i], event), sel, i + 1, event)

\* off(event)
Off(w, event) ==
  /\ ops < MaxOps
  /\ ops' = ops + 1
  /\ LET r == OffNodes([nat |-> native, em |-> eventListeners[w]], nodes[w], 1, event)
     IN /\ native' = r.nat
        /\ eventListeners' = [eventListeners EXCEPT ![w] = r.em]
  /\ last' = [Call("off", w) EXCEPT !.ev = event]
  /\ UNCHANGED <<content, nNodes, tag, kids, nWrappers, root, nodes, data, instances>>

\* ------------------------------------------------------------------ remove
\* eventMap.forEach((callbacks, event) => callbacks.forEach((callback) =>
\*   node.removeEventListener(event, callback))): event is the registry key.
RECURSIVE RemoveByKey(_, _, _, _)
RemoveByKey(nat, n, em, keys) ==
  IF keys = {} THEN nat
  ELSE LET key == CHOOSE k \in keys : TRUE
       IN RemoveByKey(RemoveCallbacks(nat, n, key, em[key], 1), n, em, keys \ {key})

\* Elym.instances.delete(node)
UnregisterOwned(inst, n, w) == [inst EXCEPT ![n] = IF @ = w THEN NoWrapper ELSE @]
Unregister(inst, n, w) == [inst EXCEPT ![n] = NoWrapper]

\* The body of remove()'s forEach for one node.
RemoveNode(st, n, w) ==
  [nat |-> IF n \in DOMAIN st.em
           THEN RemoveByKey(st.nat, n, st.em[n], DOMAIN st.em[n])
           ELSE st.nat,
   em |-> MapDel(st.em, n),
   inst |-> Unregister(st.inst, n, w),
   kids |-> Detach(st.kids, n)]

RECURSIVE RemoveNodes(_, _, _, _)
RemoveNodes(st, sel, i, w) ==
  IF i > Len(sel) THEN st ELSE RemoveNodes(RemoveNode(st, sel[i], w), sel, i + 1, w)

\* remove()
Remove(w) ==
  /\ ops < MaxOps
  /\ ops' = ops + 1
  /\ LET r == RemoveNodes([nat |-> native, em |-> eventListeners[w],
                           inst |-> instances, kids |-> kids], nodes[w], 1, w)
     IN /\ native' = r.nat
        /\ eventListeners' = [eventListeners EXCEPT ![w] = r.em]
        /\ instances' = r.inst
        /\ kids' = r.kids
  /\ last' = Call("remove", w)
  /\ UNCHANGED <<content, nNodes, tag, nWrappers, root, nodes, data>>

\* ------------------------------------------------------------------ clone
\* clonedNode.addEventListener(event, callback) for every key and callback of
\* em: event is the registry key.
RECURSIVE AddCallbacks(_, _, _, _, _)
AddCallbacks(nat, n, type, cbs, i) ==
  IF i > Len(cbs) THEN nat
  ELSE AddCallbacks(AddEventListener(nat, n, type, cbs[i], FALSE), n, type, cbs, i + 1)

RECURSIVE AddByKey(_, _, _, _)
AddByKey(nat, n, em, keys) ==
  IF keys = {} THEN nat
  ELSE LET key == CHOOSE k \in keys : TRUE
       IN AddByKey(AddCallbacks(nat, n, key, em[key], 1), n, em, keys \ {key})

\* clone(): clone.#nodes is [clone root], so clonedNode is the clone's root at
\* index 0 and undefined at every later index; an undefined clonedNode throws
\* a TypeError as soon as the node has listeners or data to copy.
CloneThrows(w) ==
  \E i \in 2..Len(nodes[w]) :
     nodes[w][i] \in DOMAIN eventListeners[w] \/ nodes[w][i] \in DOMAIN data[w]

Clone(w) ==
  /\ ops < MaxOps
  /\ ops' = ops + 1
  /\ nWrappers < MaxWrappers
  /\ nNodes + ElementCount(OuterHTML(root[w]), 1, 0) <= MaxNodes
  /\ LET p == ParseTokens(OuterHTML(root[w]), 1, <<>>, nNodes, tag, kids, props, text)
         r == nNodes + 1
         c == nWrappers + 1
         sel == nodes[w]
         copyEm == sel # <<>> /\ sel[1] \in DOMAIN eventListeners[w]
         copyData == sel # <<>> /\ sel[1] \in DOMAIN data[w]
     IN /\ nNodes' = p.next
        /\ tag' = p.tag
        /\ kids' = p.kids
        /\ props' = p.props
        /\ text' = p.text
        /\ nWrappers' = c
        /\ root' = [root EXCEPT ![c] = r]
        /\ nodes' = [nodes EXCEPT ![c] = <<r>>]
        /\ instances' = [instances EXCEPT ![r] = c]
        /\ native' = IF copyEm
                     THEN AddByKey(native, r, eventListeners[w][sel[1]],
                                   DOMAIN eventListeners[w][sel[1]])
                     ELSE native
        /\ eventListeners' =
             IF copyEm
             THEN [eventListeners EXCEPT ![c] = MapSet(@, r, eventListeners[w][sel[1]])]
             ELSE eventListeners
        /\ data' = IF copyData
                   THEN [data EXCEPT ![c] = MapSet(@, r, data[w][sel[1]])]
                   ELSE data
        /\ last' = IF CloneThrows(w)
                   THEN [Call("clone", w) EXCEPT !.ret = NoWrapper, !.err = "TypeError"]
                   ELSE [Call("clone", w) EXCEPT !.ret = c]

\* ------------------------------------------------------------------ data
\* The callbacks data is called with: none, or the one of the test and of the
\* doc comment, (node, datum) => { node.textContent = datum }.
DataCallbacks == {"none", "setText"}

\* One iteration of the loop of data: bind the datum to the node, then call
\* back. st is the data registry of the wrapper, the tree, the text of the
\* nodes and the calls made so far.
BindDatum(st, n, datum, index, cb) ==
  IF cb = "none" THEN [st EXCEPT !.data = MapSet(@, n, datum)]
  ELSE [data |-> MapSet(st.data, n, datum),
        kids |-> [st.kids EXCEPT ![n] = <<>>],
        text |-> [st.text EXCEPT ![n] = <<datum>>],
        log |-> Append(st.log, [node |-> n, datum |-> datum, index |-> index])]

\* this._nodes.forEach((node, index) => { if (index < dataset.length) ... })
RECURSIVE BindDataFirstDatum(_, _, _, _, _)
BindDataFirstDatum(st, sel, i, dataset, cb) ==
  IF i > Len(sel) THEN st
  ELSE BindDataFirstDatum(IF i - 1 < Len(dataset)
                          THEN BindDatum(st, sel[i], dataset[1], i - 1, cb)
                          ELSE st,
                          sel, i + 1, dataset, cb)
RECURSIVE BindData(_, _, _, _, _)
BindData(st, sel, i, dataset, cb) ==
  IF i > Len(sel) THEN st
  ELSE BindData(IF i - 1 < Len(dataset)
                THEN BindDatum(st, sel[i], dataset[i], i - 1, cb)
                ELSE st,
                sel, i + 1, dataset, cb)

\* data(dataset) when cb is "none", data(dataset, callback) otherwise
Data(w, dataset, cb) ==
  /\ ops < MaxOps
  /\ ops' = ops + 1
  /\ LET st == BindData([data |-> data[w], kids |-> kids, text |-> text,
                         log |-> <<>>], nodes[w], 1, dataset, cb)
     IN /\ data' = [data EXCEPT ![w] = st.data]
        /\ kids' = st.kids
        /\ text' = st.text
        /\ last' = [Call("data", w) EXCEPT !.dataset = dataset, !.cb = cb,
                                           !.log = st.log]
  /\ UNCHANGED <<props, nNodes, tag, native, nWrappers, root, nodes,
                 eventListeners, instances>>

\* getData(node)
GetData(w, n) == IF n \in DOMAIN data[w] THEN data[w][n] ELSE "undefined"

\* Elym.getInstance(node), Elym.isInstance(node)
GetInstance(n) == instances[n]
IsInstance(n) == instances[n] # NoWrapper

\* ------------------------------------------------------------------ moving nodes
\* parent.prepend(n): n leaves its previous parent and becomes the first child.
PrependChild(kd, p, n) == [Detach(kd, n) EXCEPT ![p] = <<n>> \o @]

\* The DOM refuses to insert a node into itself or into one of its descendants
\* (HierarchyRequestError).
Refuses(kd, parent, n) == n = parent \/ n \in AncestorsIn(kd, parent)

\* One parent.appendChild(n) or parent.prepend(n) of a loop that stops at the
\* first error; st is the tree so far and whether an error was thrown.
Place(st, parent, n, front) ==
  IF st.err THEN st
  ELSE IF Refuses(st.kids, parent, n) THEN [st EXCEPT !.err = TRUE]
  ELSE [st EXCEPT !.kids = IF front THEN PrependChild(@, parent, n)
                           ELSE AppendChild(@, parent, n)]

\* parent._nodes.forEach((parentNode) => parentNode.appendChild(node))
RECURSIVE PlaceIntoFirst(_, _, _, _, _)
PlaceIntoFirst(st, targets, j, n, front) ==
  IF j > Len(targets) THEN st
  ELSE PlaceIntoFirst(IF j = 1 THEN Place(st, targets[1], n, front) ELSE st,
                      targets, j + 1, n, front)
RECURSIVE PlaceInto(_, _, _, _, _)
PlaceInto(st, targets, j, n, front) ==
  IF j > Len(targets) THEN st
  ELSE PlaceInto(Place(st, targets[j], n, front), targets, j + 1, n, front)

\* this._nodes.forEach((node) => ...)
RECURSIVE PlaceEach(_, _, _, _, _)
PlaceEach(st, sel, i, targets, front) ==
  IF i > Len(sel) THEN st
  ELSE PlaceEach(PlaceInto(st, targets, 1, sel[i], front), sel, i + 1, targets, front)

\* What appendTo, prepend and appendElements are handed: a wrapper or a raw
\* element (document.body included).
Handles ==
  [w : Live, n : {Doc}] \cup [w : {NoWrapper}, n : Obtainable \cup {Doc}]
\* parent instanceof Elym ? parent._nodes : parent
NodesOf(h) == IF h.w # NoWrapper THEN nodes[h.w] ELSE <<h.n>>

\* appendTo(parent) when front is FALSE, prepend(parent) when it is TRUE
MoveTo(op, w, parent, front) ==
  /\ ops < MaxOps
  /\ ops' = ops + 1
  /\ LET st == PlaceEach([kids |-> kids, err |-> FALSE], nodes[w], 1,
                         NodesOf(parent), front)
         call == [Call(op, w) EXCEPT !.els = NodesOf(parent),
                                     !.flag = parent.w # NoWrapper]
     IN /\ kids' = st.kids
        /\ last' = IF st.err
                   THEN [call EXCEPT !.ret = NoWrapper, !.err = "HierarchyRequestError"]
                   ELSE call
  /\ UNCHANGED <<content, nNodes, tag, native, nWrappers, root, nodes, eventListeners,
                 data, instances>>

AppendTo(w, parent) == MoveTo("appendTo", w, parent, FALSE)
Prepend(w, parent) == MoveTo("prepend", w, parent, TRUE)

RECURSIVE DetachAll(_, _, _)
DetachAll(kd, ns, i) ==
  IF i > Len(ns) THEN kd ELSE DetachAll(Detach(kd, ns[i]), ns, i + 1)

\* node.append(...ns). One node is inserted as it is. Several are first moved
\* into a fragment, which is then inserted; when that is refused they stay in
\* the fragment, out of every tree the program holds.
AppendNodes(st, parent, ns) ==
  IF st.err \/ ns = <<>> THEN st
  ELSE IF Len(ns) = 1 THEN Place(st, parent, ns[1], FALSE)
  ELSE LET kd == DetachAll(st.kids, ns, 1)
       IN IF parent \in Range(ns) \/ AncestorsIn(kd, parent) \cap Range(ns) # {}
          THEN [kids |-> kd, err |-> TRUE]
          ELSE [kids |-> [kd EXCEPT ![parent] = @ \o ns], err |-> FALSE]

\* this._nodes.forEach((node) => node.append(...))
RECURSIVE AppendToLast(_, _, _, _)
AppendToLast(st, sel, i, ns) ==
  IF i > Len(sel) THEN st
  ELSE AppendToLast(AppendNodes(st, sel[i], ns), sel, i + 1, ns)

\* elements.forEach((element) => ...)
RECURSIVE AppendItems(_, _, _, _)
AppendItems(st, sel, items, k) ==
  IF k > Len(items) THEN st
  ELSE AppendItems(AppendToLast(st, sel, 1, NodesOf(items[k])), sel, items, k + 1)

\* appendElements(...elements)
AppendElements(w, items) ==
  /\ ops < MaxOps
  /\ ops' = ops + 1
  /\ LET st == AppendItems([kids |-> kids, err |-> FALSE], nodes[w], items, 1)
         call == [Call("appendElements", w) EXCEPT
                    !.els = Flatten([k \in DOMAIN items |-> NodesOf(items[k])])]
     IN /\ kids' = st.kids
        /\ last' = IF st.err
                   THEN [call EXCEPT !.ret = NoWrapper, !.err = "HierarchyRequestError"]
                   ELSE call
  /\ UNCHANGED <<content, nNodes, tag, native, nWrappers, root, nodes, eventListeners,
                 data, instances>>

\* ------------------------------------------------------------------ inserting nodes
\* node.nextSibling when there is none
NoSibling == -1

IndexOf(s, n) == CHOOSE i \in DOMAIN s : s[i] = n

\* node.nextSibling in the tree kd
NoNextSibling(kd, n) == NoSibling
NextSibling(kd, n) ==
  LET p == ParentIn(kd, n)
  IN IF p = NoParent THEN NoSibling
     ELSE LET i == IndexOf(kd[p], n)
          IN IF i < Len(kd[p]) THEN kd[p][i + 1] ELSE NoSibling

\* The children s with n put before child, or last when child is null.
InsertAtEnd(s, n, child) == Append(s, n)
InsertAt(s, n, child) ==
  IF child = NoSibling THEN Append(s, n)
  ELSE LET i == IndexOf(s, child)
       IN SubSeq(s, 1, i - 1) \o <<n>> \o SubSeq(s, i, Len(s))

\* parent.insertBefore(n, child), child being null or a child of parent: the
\* DOM refuses as for appendChild, and takes n's next sibling for child when
\* child is n itself.
NodeInsertBefore(st, parent, n, child) ==
  IF st.err THEN st
  ELSE IF Refuses(st.kids, parent, n) THEN [st EXCEPT !.err = TRUE]
  ELSE LET before == IF child = n THEN NextSibling(st.kids, n) ELSE child
           kd == Detach(st.kids, n)
       IN [st EXCEPT !.kids = [kd EXCEPT ![parent] = InsertAt(@, n, before)]]

\* this._nodes.forEach((node) =>
\*   referenceElement.parentNode?.insertBefore(node, <reference>))
\* where <reference> is referenceElement, or its nextSibling when after is TRUE
RECURSIVE InsertEach(_, _, _, _, _)
InsertEach(st, sel, i, ref, after) ==
  IF i > Len(sel) THEN st
  ELSE LET p == ParentIn(st.kids, ref)
       IN InsertEach(IF st.err \/ p = NoParent THEN st
                     ELSE NodeInsertBefore(st, p, sel[i],
                                           IF after THEN NextSibling(st.kids, ref)
                                           ELSE ref),
                     sel, i + 1, ref, after)

InsertNear(op, w, ref, after) ==
  /\ ops < MaxOps
  /\ ops' = ops + 1
  /\ LET st == InsertEach([kids |-> kids, err |-> FALSE], nodes[w], 1, ref, after)
         call == [Call(op, w) EXCEPT !.els = <<ref>>]
     IN /\ kids' = st.kids
        /\ last' = IF st.err
                   THEN [call EXCEPT !.ret = NoWrapper, !.err = "HierarchyRequestError"]
                   ELSE call
  /\ UNCHANGED <<content, nNodes, tag, native, nWrappers, root, nodes, eventListeners,
                 data, instances>>

\* insertBefore(referenceElement)
InsertBefore(w, ref) == InsertNear("insertBefore", w, ref, FALSE)
\* insertAfter(referenceElement)
InsertAfter(w, ref) == InsertNear("insertAfter", w, ref, TRUE)

\* ------------------------------------------------------------------ accessors
\* Attribute names of HTML elements are matched in ASCII lower case.
ToAsciiLower(k) == IF k = "ID" THEN "id" ELSE k

\* node.getAttribute(k)
GetAttribute(pr, n, k) ==
  IF ToAsciiLower(k) \in DOMAIN pr[n].attrs
  THEN Str(pr[n].attrs[ToAsciiLower(k)]) ELSE Null
\* node.setAttribute(k, v)
SetAttribute(pr, n, k, v) ==
  [pr EXCEPT ![n].attrs = MapSet(@, ToAsciiLower(k), v)]

\* this._nodes.forEach((node) => node.setAttribute(attribute, value))
RECURSIVE SetAttributesFirst(_, _, _, _, _)
SetAttributesFirst(pr, sel, i, k, v) ==
  IF i > Len(sel) THEN pr
  ELSE SetAttributesFirst(SetAttribute(pr, sel[1], k, v), sel, i + 1, k, v)
RECURSIVE SetAttributes(_, _, _, _, _)
SetAttributes(pr, sel, i, k, v) ==
  IF i > Len(sel) THEN pr
  ELSE SetAttributes(SetAttribute(pr, sel[i], k, v), sel, i + 1, k, v)

\* What the accessors leave alone.
structure == <<nNodes, tag, native, nWrappers, root, nodes, eventListeners,
               data, instances>>

\* attr(attribute) when argc = 1, attr(attribute, value) when argc = 2
Attr(w, k, argc, v) ==
  /\ ops < MaxOps
  /\ ops' = ops + 1
  /\ LET call == [Call("attr", w) EXCEPT !.arg = k, !.argc = argc, !.value = v]
     IN IF argc = 1
        THEN /\ last' = [call EXCEPT !.ret = NoWrapper,
                           !.out = IF Len(nodes[w]) # 0
                                   THEN GetAttribute(props, nodes[w][1], k)
                                   ELSE Null]
             /\ UNCHANGED props
        ELSE /\ props' = SetAttributes(props, nodes[w], 1, k, v)
             /\ last' = [call EXCEPT !.out = This]
  /\ UNCHANGED <<structure, kids, text>>

\* node.textContent, read in the DOM (kd, tx)
RECURSIVE TextContent(_, _, _)
TextContent(kd, tx, n) ==
  tx[n] \o Flatten([i \in DOMAIN kd[n] |-> TextContent(kd, tx, kd[n][i])])

\* node.textContent = v: the children go, v is the only content
SetTextContent(st, n, v) ==
  [kids |-> [st.kids EXCEPT ![n] = <<>>], text |-> [st.text EXCEPT ![n] = v]]

\* this._nodes.forEach((node) => (node.textContent = value))
RECURSIVE SetTextContentsFirst(_, _, _, _)
SetTextContentsFirst(st, sel, i, v) ==
  IF i > Len(sel) THEN st
  ELSE SetTextContentsFirst(SetTextContent(st, sel[1], v), sel, i + 1, v)
RECURSIVE SetTextContents(_, _, _, _)
SetTextContents(st, sel, i, v) ==
  IF i > Len(sel) THEN st
  ELSE SetTextContents(SetTextContent(st, sel[i], v), sel, i + 1, v)

\* if (!value): undefined and the empty string are both falsy
Falsy(given, v) == ~given \/ v = <<>>

\* text() when given is FALSE, text(value) otherwise
Text(w, given, v) ==
  /\ ops < MaxOps
  /\ ops' = ops + 1
  /\ LET call == [Call("text", w) EXCEPT !.argc = IF given THEN 1 ELSE 0,
                                         !.value = v]
     IN IF Falsy(given, v)
        THEN /\ last' = [call EXCEPT !.ret = NoWrapper,
                           !.out = Str(IF Len(nodes[w]) # 0
                                       THEN TextContent(kids, text, nodes[w][1])
                                       ELSE <<>>)]
             /\ UNCHANGED <<kids, text>>
        ELSE LET st == SetTextContents([kids |-> kids, text |-> text],
                                       nodes[w], 1, v)
             IN /\ kids' = st.kids
                /\ text' = st.text
                /\ last' = [call EXCEPT !.out = This]
  /\ UNCHANGED <<structure, props>>

\* this.nodes.length: nodes is a method that declares no parameter, and the
\* length of a function is the number of parameters it declares.
NodesArity == 0

\* node.style.getPropertyValue(p): the empty string when p is not set
GetPropertyValue(pr, n, p) ==
  IF p \in DOMAIN pr[n].style THEN pr[n].style[p] ELSE <<>>
\* node.style.setProperty(p, v): the empty string removes the declaration
SetProperty(pr, n, p, v) ==
  [pr EXCEPT ![n].style = IF v = <<>> THEN MapDel(@, p) ELSE MapSet(@, p, v)]

\* this._nodes.forEach((node) => node.style.setProperty(property, value))
RECURSIVE SetProperties(_, _, _, _, _)
SetProperties(pr, sel, i, p, v) ==
  IF i > Len(sel) THEN pr
  ELSE SetProperties(SetProperty(pr, sel[i], p, v), sel, i + 1, p, v)

\* style(property) when given is FALSE, style(property, value) otherwise
Style(w, p, given, v) ==
  /\ ops < MaxOps
  /\ ops' = ops + 1
  /\ LET call == [Call("style", w) EXCEPT !.arg = p, !.value = v,
                                          !.argc = IF given THEN 2 ELSE 1]
     IN IF ~given
        THEN /\ last' =
                  IF NodesArity = 0
                  THEN [call EXCEPT !.ret = NoWrapper, !.out = Null]
                  ELSE IF Len(nodes[w]) = 0
                  THEN [call EXCEPT !.ret = NoWrapper, !.err = "TypeError"]
                  ELSE [call EXCEPT !.ret = NoWrapper,
                          !.out = Str(GetPropertyValue(props, nodes[w][1], p))]
             /\ UNCHANGED props
        ELSE /\ props' = SetProperties(props, nodes[w], 1, p, v)
             /\ last' = [call EXCEPT !.out = This]
  /\ UNCHANGED <<structure, kids, text>>

\* node.classList.contains(c)
Contains(pr, n, c) == c \in Range(pr[n].classes)
\* node.classList.add(c)
ClassListAdd(pr, n, c) ==
  IF Contains(pr, n, c) THEN pr ELSE [pr EXCEPT ![n].classes = Append(@, c)]
\* node.classList.remove(c)
ClassListRemove(pr, n, c) ==
  [pr EXCEPT ![n].classes = SelectSeq(@, LAMBDA x : x # c)]
\* node.classList.toggle(c, force)
ClassListToggle(pr, n, c, force) ==
  IF force THEN ClassListAdd(pr, n, c) ELSE ClassListRemove(pr, n, c)

\* this._nodes.forEach((node) => node.classList.toggle(className, value)), and
\* with force TRUE this._nodes.forEach((node) => node.classList.add(className))
RECURSIVE ToggleAll(_, _, _, _, _)
ToggleAll(pr, sel, i, c, force) ==
  IF i > Len(sel) THEN pr
  ELSE ToggleAll(ClassListToggle(pr, sel[i], c, force), sel, i + 1, c, force)

\* addClass(className)
AddClass(w, c) ==
  /\ ops < MaxOps
  /\ ops' = ops + 1
  /\ props' = ToggleAll(props, nodes[w], 1, c, TRUE)
  /\ last' = [Call("addClass", w) EXCEPT !.arg = c, !.argc = 1, !.out = This]
  /\ UNCHANGED <<structure, kids, text>>

\* classed(className) when given is FALSE, classed(className, value) otherwise
Classed(w, c, given, b) ==
  /\ ops < MaxOps
  /\ ops' = ops + 1
  /\ LET call == [Call("classed", w) EXCEPT !.arg = c,
                                            !.argc = IF given THEN 2 ELSE 1]
     IN IF ~given
        THEN /\ last' =
                  IF NodesArity = 0
                  THEN [call EXCEPT !.ret = NoWrapper, !.out = Bool(FALSE)]
                  ELSE IF Len(nodes[w]) = 0
                  THEN [call EXCEPT !.ret = NoWrapper, !.err = "TypeError"]
                  ELSE [call EXCEPT !.ret = NoWrapper,
                          !.out = Bool(Contains(props, nodes[w][1], c))]
             /\ UNCHANGED props
        ELSE /\ props' = ToggleAll(props, nodes[w], 1, c, b)
             /\ last' = [call EXCEPT !.out = This, !.flag = b]
  /\ UNCHANGED <<structure, kids, text>>

\* node.innerHTML
InnerHTML(n) ==
  (IF text[n] # <<>> THEN <<TextToken(text[n])>> ELSE <<>>)
    \o Flatten([i \in DOMAIN kids[n] |-> OuterHTML(kids[n][i])])

\* this._nodes.map((node) => node.innerHTML).join("")
InnerOfFirst(sel) == IF sel = <<>> THEN <<>> ELSE InnerHTML(sel[1])
InnerOfAll(sel) == Flatten([i \in DOMAIN sel |-> InnerHTML(sel[i])])

\* html()
HtmlGet(w) ==
  /\ ops < MaxOps
  /\ ops' = ops + 1
  /\ last' = [Call("html", w) EXCEPT !.ret = NoWrapper,
                                     !.out = Str(InnerOfAll(nodes[w]))]
  /\ UNCHANGED <<structure, content, kids>>

\* ------------------------------------------------------------------ toggle, transition
\* '<svg xmlns="http://www.w3.org/2000/svg"></svg>': the one SVG element of
\* the trees built here.
SvgMarkup == <<Open("svg"), Close("svg")>>

\* node instanceof HTMLElement
IsHTMLElement(n) == tag[n] # "svg"

\* The names toggle is called with: a class name and an attribute name.
ToggleNames == ClassNames \cup {"id"}

\* node.hasAttribute(k), node.removeAttribute(k)
HasAttribute(pr, n, k) == ToAsciiLower(k) \in DOMAIN pr[n].attrs
RemoveAttribute(pr, n, k) == [pr EXCEPT ![n].attrs = MapDel(@, ToAsciiLower(k))]

\* The body of the loop of toggle for one node.
ToggleNode(pr, n, c, state) ==
  IF IsHTMLElement(n)
  THEN IF HasAttribute(pr, n, c)
       THEN IF state THEN SetAttribute(pr, n, c, <<>>) ELSE RemoveAttribute(pr, n, c)
       ELSE ClassListToggle(pr, n, c, state)
  ELSE pr

RECURSIVE ToggleEach(_, _, _, _, _)
ToggleEach(pr, sel, i, c, state) ==
  IF i > Len(sel) THEN pr
  ELSE ToggleEach(ToggleNode(pr, sel[i], c, state), sel, i + 1, c, state)

\* toggle(attributeOrClass, state)
Toggle(w, c, state) ==
  /\ ops < MaxOps
  /\ ops' = ops + 1
  /\ props' = ToggleEach(props, nodes[w], 1, c, state)
  /\ last' = [Call("toggle", w) EXCEPT !.arg = c, !.argc = 2, !.flag = state,
                                        !.out = This]
  /\ UNCHANGED <<structure, kids, text>>

\* The arguments of transition: durations, easings, and the properties objects
\* over StyleProps.
Durations == {300}
Easings == {"ease", "linear"}
PropertyMaps == {EmptyMap} \cup { [p \in StyleProps |-> v] : v \in Values }

\* `all ${duration}ms ${easing}`
TransitionText(duration, easing) == <<"all ", ToString(duration), "ms ", easing>>

\* Object.entries(properties).forEach(([key, value]) => {
\*   if (!value) node.style.setProperty(key, String(value)) })
RECURSIVE SetFalsy(_, _, _, _)
SetFalsy(pr, n, properties, keys) ==
  IF keys = {} THEN pr
  ELSE LET key == CHOOSE k \in keys : TRUE
       IN SetFalsy(IF Falsy(TRUE, properties[key])
                   THEN SetProperty(pr, n, key, properties[key])
                   ELSE pr,
                   n, properties, keys \ {key})

RECURSIVE TransitionEach(_, _, _, _, _, _)
TransitionEach(pr, sel, i, duration, properties, easing) ==
  IF i > Len(sel) THEN pr
  ELSE TransitionEach(
         SetFalsy([pr EXCEPT ![sel[i]].style =
                     MapSet(@, "transition", TransitionText(duration, easing))],
                  sel[i], properties, DOMAIN properties),
         sel, i + 1, duration, properties, easing)

\* transition(duration, properties, easing)
Transition(w, duration, properties, easing) ==
  /\ ops < MaxOps
  /\ ops' = ops + 1
  /\ props' = TransitionEach(props, nodes[w], 1, duration, properties, easing)
  /\ last' = [Call("transition", w) EXCEPT !.duration = duration,
                                            !.properties = properties,
                                            !.arg = easing, !.out = This]
  /\ UNCHANGED <<structure, kids, text>>

Next ==
  \/ \E tpl \in Templates : Construct(tpl)
  \/ \E els \in ElementLists : FromElementCall(els)
  \/ \E s \in Selectors : Select(s)
  \/ \E s \in Selectors : SelectAll(s)
  \/ \E w \in Live, s \in Selectors : SelectChild(w, s)
  \/ \E w \in Live, s \in Selectors : SelectChildren(w, s)
  \/ \E w \in Live : BackToRoot(w)
  \/ \E w \in Live : AppendToBody(w)
  \/ \E w \in Live, t \in AppendTags : AppendTag(w, t)
  \/ \E w \in Live : Remove(w)
  \/ \E w \in Live : Clone(w)
  \/ \E w \in Live, d \in Datasets : Data(w, d, "none")

Spec == Init /\ [][Next]_vars

\* The calls of the listener bookkeeping, on the same wrappers.
NextListeners ==
  \/ \E w \in Live, e \in EventSpecs, cb \in Callbacks, c \in BOOLEAN : On(w, e, cb, c)
  \/ \E w \in Live, e \in EventSpecs : Off(w, e)
  \/ \E w \in Live, s \in Selectors : SelectChildren(w, s)
  \/ \E w \in Live : BackToRoot(w)
  \/ \E w \in Live : Remove(w)
  \/ \E w \in Live : Clone(w)

SpecListeners == Init /\ [][NextListeners]_vars

\* The calls that read and write what the selected nodes hold.
NextAccessors ==
  \/ \E w \in Live, k \in AttrNames, v \in Values : Attr(w, k, 2, v)
  \/ \E w \in Live, k \in AttrNames : Attr(w, k, 1, <<>>)
  \/ \E w \in Live, v \in Values : Text(w, TRUE, v)
  \/ \E w \in Live : Text(w, FALSE, <<>>)
  \/ \E w \in Live, p \in StyleProps, v \in Values : Style(w, p, TRUE, v)
  \/ \E w \in Live, p \in StyleProps : Style(w, p, FALSE, <<>>)
  \/ \E w \in Live, c \in ClassNames, b \in BOOLEAN : Classed(w, c, TRUE, b)
  \/ \E w \in Live, c \in ClassNames : Classed(w, c, FALSE, FALSE)
  \/ \E w \in Live, c \in ClassNames : AddClass(w, c)
  \/ \E w \in Live : HtmlGet(w)
  \/ \E w \in Live, s \in Selectors : SelectChild(w, s)
  \/ \E w \in Live, s \in Selectors : SelectChildren(w, s)
  \/ \E w \in Live : BackToRoot(w)

SpecAccessors == Init /\ [][NextAccessors]_vars

\* The calls that move existing nodes, on wrappers made from templates.
NextPlacement ==
  \/ \E tpl \in Templates : Construct(tpl)
  \/ \E w \in Live, s \in Selectors : SelectChild(w, s)
  \/ \E w \in Live, s \in Selectors : SelectChildren(w, s)
  \/ \E w \in Live : BackToRoot(w)
  \/ \E w \in Live, h \in Handles : AppendTo(w, h)
  \/ \E w \in Live, h \in Handles : Prepend(w, h)
  \/ \E w \in Live, h \in Handles \ {[w |-> NoWrapper, n |-> Doc]} :
       AppendElements(w, <<h>>)

SpecPlacement == Init /\ [][NextPlacement]_vars

\* The calls that put the selected nodes next to a reference element.
NextInsertion ==
  \/ \E tpl \in Templates : Construct(tpl)
  \/ \E w \in Live, s \in Selectors : SelectChild(w, s)
  \/ \E w \in Live, s \in Selectors : SelectChildren(w, s)
  \/ \E w \in Live : BackToRoot(w)
  \/ \E w \in Live : AppendToBody(w)
  \/ \E w \in Live, ref \in Obtainable : InsertBefore(w, ref)
  \/ \E w \in Live, ref \in Obtainable : InsertAfter(w, ref)

SpecInsertion == Init /\ [][NextInsertion]_vars

\* Binding data, with and without a callback, under changing selections.
NextBinding ==
  \/ \E w \in Live, d \in Datasets, cb \in DataCallbacks : Data(w, d, cb)
  \/ \E w \in Live, s \in Selectors : SelectChild(w, s)
  \/ \E w \in Live, s \in Selectors : SelectChildren(w, s)
  \/ \E w \in Live : BackToRoot(w)
  \/ \E w \in Live : Text(w, FALSE, <<>>)

SpecBinding == Init /\ [][NextBinding]_vars

\* toggle and transition on HTML and SVG elements, with and without attributes.
NextStyling ==
  \/ Construct(SvgMarkup)
  \/ \E w \in Live, k \in AttrNames, v \in Values : Attr(w, k, 2, v)
  \/ \E w \in Live, c \in ToggleNames, b \in BOOLEAN : Toggle(w, c, b)
  \/ \E w \in Live, d \in Durations, pm \in PropertyMaps, e \in Easings :
       Transition(w, d, pm, e)
  \/ \E w \in Live, p \in StyleProps, v \in Values : Style(w, p, TRUE, v)
  \/ \E w \in Live, s \in Selectors : SelectChildren(w, s)
  \/ \E w \in Live : BackToRoot(w)

SpecStyling == Init /\ [][NextStyling]_vars

\* Two wrappers of one node: the state after
\*   e = new Elym("<ul><li></li><li></li></ul>"); b = Elym.fromElement(e.root())
InitShared ==
  LET p == ParseTokens(ListMarkup, 1, <<>>, 0, [n \in Node |-> ""],
                       [q \in 0..MaxNodes |-> <<>>], [n \in Node |-> NoProps],
                       [n \in Node |-> <<>>])
      t == ParseTokens(TempRootMarkup, 1, <<>>, p.next, p.tag, p.kids, p.props,
                       p.text)
  IN /\ nNodes = t.next
     /\ tag = t.tag
     /\ kids = t.kids
     /\ props = t.props
     /\ text = t.text
     /\ native = [n \in Node |-> {}]
     /\ nWrappers = 2
     /\ root = [w \in Wrapper |-> IF w \in {1, 2} THEN 1 ELSE 0]
     /\ nodes = [w \in Wrapper |-> IF w \in {1, 2} THEN <<1>> ELSE <<>>]
     /\ eventListeners = [w \in Wrapper |-> EmptyMap]
     /\ data = [w \in Wrapper |-> EmptyMap]
     /\ instances = Register([n \in Node |-> IF n = 1 THEN 1
                                             ELSE IF n = t.next THEN 2
                                             ELSE NoWrapper], <<1>>, 2)
     /\ ops = 0
     /\ last = [NoCall EXCEPT !.op = "fromElement", !.els = <<1>>,
                              !.owners = <<1>>, !.ret = 2]

\* The bookkeeping calls of the two wrappers.
NextShared ==
  \/ \E w \in Live, e \in EventSpecs, cb \in Callbacks, c \in BOOLEAN : On(w, e, cb, c)
  \/ \E w \in Live, e \in EventSpecs : Off(w, e)
  \/ \E w \in Live : Remove(w)
  \/ \E w \in Live, d \in Datasets : Data(w, d, "none")

SpecShared == InitShared /\ [][NextShared]_vars

\* ------------------------------------------------------------------ claims
\* cb is in n's listener list for the event type.
Attached(n, type, cb) == \E l \in native[n] : l.type = type /\ l.cb = cb

InDocument(n) == n \in Range(Descendants(kids, Doc))

\* The callbacks the registry em of a wrapper holds for node n under key.
RegisteredIn(em, n, key) ==
  IF n \in DOMAIN em /\ key \in DOMAIN em[n] THEN Range(em[n][key]) ELSE {}

Registered(w, n, key) == RegisteredIn(eventListeners[w], n, key)

\* C1: in every reachable state, a callback a wrapper's listener registry holds
\* for node n under key "type" or "type.ns" is natively attached on n for the
\* bare type, so that dispatching "type" on n invokes it.
C1_RegistryIsAttached ==
  \A w \in Live : \A n \in DOMAIN eventListeners[w] :
    \A key \in DOMAIN eventListeners[w][n] :
      \A cb \in Registered(w, n, key) :
        /\ Attached(n, EventType(key), cb)
        /\ cb \in Dispatch(n, EventType(key))

\* C2: off("type") with no namespace deletes exactly the key "type" of every
\* selected node; every other key keeps its callbacks, and a callback under a
\* namespaced key "type.ns" that a dispatch of "type" invoked before the call
\* is still invoked after it.
C2_BareOffKeepsNamespaced ==
  [][(last'.op = "off" /\ Namespace(last'.ev) = <<>>) =>
       LET w == last'.w
           type == EventType(last'.ev)
       IN \A n \in Range(nodes[w]) \cap DOMAIN eventListeners[w] :
            /\ RegisteredIn(eventListeners'[w], n, type) = {}
            /\ \A key \in (DOMAIN eventListeners[w][n]) \ {type} :
                 /\ n \in DOMAIN eventListeners'[w]
                 /\ key \in DOMAIN eventListeners'[w][n]
                 /\ eventListeners'[w][n][key] = eventListeners[w][n][key]
                 /\ EventType(key) = type =>
                      \A cb \in Registered(w, n, key) :
                        cb \in Dispatch(n, type) =>
                          cb \in DispatchIn(native', kids', n, type)
    ]_vars

\* C3: on(e, cb, options) followed by off(e) on the same selection removes cb:
\* the registry holds no cb under e for any selected node and a dispatch of
\* the event type on a selected node does not invoke cb.
C3_OnThenOffRemoves ==
  [][(/\ last.op = "on" /\ last'.op = "off"
      /\ last'.w = last.w /\ last'.ev = last.ev /\ last'.sel = last.sel) =>
       \A n \in Range(last.sel) :
         /\ last.cb \notin RegisteredIn(eventListeners'[last.w], n, EventKey(last.ev))
         /\ last.cb \notin DispatchIn(native', kids', n, EventType(last.ev))
    ]_vars

\* C4: after remove(), every node that was selected when it was called has no
\* parent, is not in the document, and has no entry in the instance registry.
C4_RemoveDetachesSelection ==
  last.op = "remove" =>
    \A n \in Range(last.sel) :
      /\ Parent(n) = NoParent
      /\ ~InDocument(n)
      /\ GetInstance(n) = NoWrapper
      /\ ~IsInstance(n)

\* remove() was called on several nodes that had a parent, one of them in the
\* document and one registered to a wrapper.
C4_Witness ==
  /\ last.op = "remove"
  /\ Len(last.sel) >= 2
  /\ \A i \in DOMAIN last.sel : last.parents[i] # NoParent
  /\ \E i \in DOMAIN last.sel : last.parents[i] = Doc
  /\ \E i \in DOMAIN last.sel : last.owners[i] # NoWrapper

\* C5 as stated: after remove(), whatever the selection, the wrapper's root has
\* no parent and no entry in the instance registry.
C5_RemoveDetachesRoot ==
  last.op = "remove" =>
    /\ Parent(root[last.w]) = NoParent
    /\ GetInstance(root[last.w]) = NoWrapper

\* C5 amended: after remove() on a wrapper whose selection contains its root,
\* the root has no parent and no entry in the instance registry.
C5_RemoveDetachesSelectedRoot ==
  (last.op = "remove" /\ root[last.w] \in Range(last.sel)) =>
    /\ Parent(root[last.w]) = NoParent
    /\ ~InDocument(root[last.w])
    /\ GetInstance(root[last.w]) = NoWrapper

\* remove() was called with the root selected, attached to the document and
\* registered.
C5_Witness ==
  /\ last.op = "remove"
  /\ \E i \in DOMAIN last.sel :
       /\ last.sel[i] = root[last.w]
       /\ last.parents[i] = Doc
       /\ last.owners[i] # NoWrapper

\* C6: after remove(), the wrapper's registry has no entry for a removed node
\* and no callback it held for the node (under any key) is invoked by a
\* dispatch of the key's event type on the node.
C6_RemoveDetachesListeners ==
  [][last'.op = "remove" =>
       LET w == last'.w
       IN \A n \in Range(nodes[w]) :
            /\ n \notin DOMAIN eventListeners'[w]
            /\ n \in DOMAIN eventListeners[w] =>
                 \A key \in DOMAIN eventListeners[w][n] :
                   \A cb \in Registered(w, n, key) :
                     cb \notin DispatchIn(native', kids', n, EventType(key))
    ]_vars

\* C7: after remove(), getData(node) on the same wrapper is undefined for
\* every node that was selected.
C7_RemoveDeletesData ==
  last.op = "remove" =>
    \A n \in Range(last.sel) : GetData(last.w, n) = "undefined"

\* C8: fromElement(n1, ..., nk), k >= 1, returns a new wrapper whose root is n1
\* and whose selection is [n1, ..., nk]; every ni is then registered to it.
C8_FromElementWraps ==
  [][(last'.op = "fromElement" /\ Len(last'.els) >= 1) =>
       LET w == last'.ret
       IN /\ last'.err = "none"
          /\ w \in Live' /\ w \notin Live
          /\ root'[w] = last'.els[1]
          /\ nodes'[w] = last'.els
          /\ \A i \in DOMAIN last'.els : instances'[last'.els[i]] = w
    ]_vars

\* fromElement was given two nodes, not in document order, one of them
\* registered to an older wrapper.
C8_Witness ==
  /\ last.op = "fromElement"
  /\ Len(last.els) = 2
  /\ last.els[1] > last.els[2]
  /\ \E i \in DOMAIN last.els : last.owners[i] \notin {NoWrapper, last.ret}

\* C9: a call fails only in the constructor (markup with no root element), in
\* fromElement with no element, and in select matching nothing.
C9_OnlyThreeFailures ==
  last.err # "none" =>
    \/ last.op = "new"
    \/ last.op = "fromElement" /\ last.els = <<>>
    \/ last.op = "select"

\* C10: every wrapper's selection is non-empty.
C10_SelectionNonEmpty ==
  \A w \in Live : Len(nodes[w]) >= 1

\* The position of node m among the descendants of p, in document order.
OrderIn(kd, p, m) ==
  CHOOSE i \in DOMAIN Descendants(kd, p) : Descendants(kd, p)[i] = m

\* The descendants of p that match the selector.
Matches(p, selector) ==
  { m \in Range(Descendants(kids, p)) : tag[m] = selector }

\* C11: selectChild(selector) replaces the selection with the first match in
\* the root's subtree; with no match the selection stays as it was; no error.
C11_SelectChildFirstMatch ==
  [][last'.op = "selectChild" =>
       LET w == last'.w
           ms == Matches(root[w], last'.arg)
       IN /\ last'.err = "none"
          /\ ms = {} => nodes'[w] = nodes[w]
          /\ ms # {} =>
               /\ Len(nodes'[w]) = 1
               /\ nodes'[w][1] \in ms
               /\ \A m \in ms : OrderIn(kids, root[w], nodes'[w][1])
                                  <= OrderIn(kids, root[w], m)
    ]_vars

\* selectChild found the first of several matches and changed the selection.
C11_Witness ==
  /\ last.op = "selectChild"
  /\ Cardinality(Matches(root[last.w], last.arg)) >= 2
  /\ nodes[last.w] # last.sel

\* selectChild matched nothing on a selection of several nodes.
C11_WitnessNoMatch ==
  /\ last.op = "selectChild"
  /\ Matches(root[last.w], last.arg) = {}
  /\ Len(last.sel) >= 2

\* C12: selectChildren(selector) replaces the selection with all matches in the
\* root's subtree in document order; with no match the selection stays as it
\* was.
C12_SelectChildrenKeepsOnNoMatch ==
  [][last'.op = "selectChildren" =>
       LET w == last'.w
           ms == Matches(root[w], last'.arg)
       IN /\ ms = {} => nodes'[w] = nodes[w]
          /\ ms # {} =>
               /\ Range(nodes'[w]) = ms
               /\ Len(nodes'[w]) = Cardinality(ms)
               /\ \A i, j \in DOMAIN nodes'[w] :
                    i < j => OrderIn(kids, root[w], nodes'[w][i])
                               < OrderIn(kids, root[w], nodes'[w][j])
    ]_vars

C13_AttrSetThenGet ==
  [][ /\ (last'.op = "attr" /\ last'.argc = 2 /\ Len(last'.sel) >= 1)
         => /\ last'.ret = last'.w
            /\ last'.out = This
            /\ \A i \in DOMAIN last'.sel :
                 GetAttribute(props', last'.sel[i], last'.arg) = Str(last'.value)
      /\ (/\ last.op = "attr" /\ last.argc = 2 /\ Len(last.sel) >= 1
          /\ last'.op = "attr" /\ last'.argc = 1
          /\ last'.w = last.w /\ last'.arg = last.arg /\ last'.sel = last.sel)
         => last'.out = Str(last.value) ]_vars

\* attr(k) has just answered with a value written to a selection of two nodes.
C13_Witness ==
  /\ last.op = "attr" /\ last.argc = 1
  /\ Len(last.sel) = 2
  /\ last.out = Str(<<"x">>)
  /\ \A i \in DOMAIN last.sel :
       GetAttribute(props, last.sel[i], last.arg) = Str(<<"x">>)

\* C14: for every string v and every non-empty selection, text(v) writes v as
\* the text content of every selected node and returns the same wrapper, and a
\* text() that follows returns v.
C14_TextSetThenGet ==
  [][ /\ (last'.op = "text" /\ last'.argc = 1 /\ Len(last'.sel) >= 1)
         => /\ last'.ret = last'.w
            /\ \A i \in DOMAIN last'.sel :
                 TextContent(kids', text', last'.sel[i]) = last'.value
      /\ (/\ last.op = "text" /\ last.argc = 1 /\ Len(last.sel) >= 1
          /\ last'.op = "text" /\ last'.argc = 0
          /\ last'.w = last.w /\ last'.sel = last.sel)
         => last'.out = Str(last.value) ]_vars

\* C15: for every CSS property p, value v and non-empty selection, style(p, v)
\* followed by style(p) returns v, read from the first selected node; style(p)
\* returns null only when the selection is empty.
C15_StyleSetThenGet ==
  [][ /\ (/\ last.op = "style" /\ last.argc = 2 /\ Len(last.sel) >= 1
          /\ last'.op = "style" /\ last'.argc = 1
          /\ last'.w = last.w /\ last'.arg = last.arg /\ last'.sel = last.sel)
         => last'.out = Str(last.value)
      /\ (last'.op = "style" /\ last'.argc = 1 /\ last'.out = Null)
         => last'.sel = <<>> ]_vars

\* C16: classed(c) returns true exactly when the first selected node has class
\* c, and false when the selection is empty; so it returns true right after
\* classed(c, true) or addClass(c) on a non-empty selection.
C16_ClassedReadsFirst ==
  [][ (last'.op = "classed" /\ last'.argc = 1)
        => last'.out = Bool(/\ last'.sel # <<>>
                            /\ Contains(props, last'.sel[1], last'.arg)) ]_vars

\* The inner markup of the nodes of sel, one after the other.
RECURSIVE JoinedInner(_)
JoinedInner(sel) ==
  IF sel = <<>> THEN <<>> ELSE InnerHTML(Head(sel)) \o JoinedInner(Tail(sel))

\* C17 as stated: html() without argument returns the inner markup of the first
\* selected node only, and the empty string when the selection is empty.
C17_HtmlReadsFirstOnly ==
  last.op = "html" =>
    last.out = Str(IF last.sel = <<>> THEN <<>> ELSE InnerHTML(last.sel[1]))

\* C17, amended: html() without argument returns the inner markup of every
\* selected node, joined in selection order (the empty string when the
\* selection is empty).
C17_HtmlJoinsSelection ==
  last.op = "html" => last.out = Str(JoinedInner(last.sel))

\* html() has answered for two selected nodes, the second of which has content.
C17_Witness ==
  /\ last.op = "html"
  /\ Len(last.sel) = 2
  /\ InnerHTML(last.sel[2]) # <<>>

\* C19: after appendElements(items) on a selection of N nodes, every item (each
\* raw node, each selected node of each wrapper item) is a child of every one
\* of the N selected nodes.
C19_AppendElementsAllToAll ==
  [][ (last'.op = "appendElements" /\ last'.err = "none")
        => \A i \in DOMAIN last'.sel : \A k \in DOMAIN last'.els :
             ParentIn(kids', last'.els[k]) = last'.sel[i] ]_vars

Preceding(kd, p, r, k) == IF r - k >= 1 THEN SubSeq(kd[p], r - k, r - 1) ELSE <<>>
Following(kd, p, r, k) == IF r + k <= Len(kd[p]) THEN SubSeq(kd[p], r + 1, r + k) ELSE <<>>

C22_CloneIsFreshCopy ==
  [][ last'.op = "clone"
        => LET w == last'.w
               c == last'.ret
           IN /\ c \in (1..nWrappers') \ Live
              /\ c # w
              /\ \E r \in Node \ Created :
                   /\ r = root'[c]
                   /\ OuterHTML(r)' = OuterHTML(root[w])
                   /\ instances'[r] = c
              /\ instances[root[w]] = w => instances'[root[w]] = w ]_vars

\* The nodes of the tree under r in markup order, r first.
Subtree(kd, r) == <<r>> \o Descendants(kd, r)

\* The keys the registry em holds for node n.
KeysIn(em, n) == IF n \in DOMAIN em THEN DOMAIN em[n] ELSE {}

\* C23: for every callback cb registered through on(spec, cb) on a selected
\* node of the original, spec being "type" or "type.ns", after clone()
\* dispatching the bare type on the clone's corresponding node invokes cb, and
\* the clone's listener registry records cb under the same key.
C23_CloneKeepsListeners ==
  [][ last'.op = "clone"
        => /\ last'.err = "none"
           /\ LET w == last'.w
                  c == last'.ret
                  from == Subtree(kids, root[w])
                  to == Subtree(kids', root'[c])
              IN \A i \in DOMAIN last'.sel :
                   last'.sel[i] \in Range(from) =>
                     LET n == last'.sel[i]
                         cp == to[IndexOf(from, n)]
                     IN \A key \in KeysIn(eventListeners[w], n) :
                          \A cb \in Registered(w, n, key) :
                            /\ cb \in DispatchIn(native', kids', cp, EventType(key))
                            /\ cb \in RegisteredIn(eventListeners'[c], cp, key) ]_vars

\* C24: clone() pairs each node of the original's selection with the node at
\* the same position in the clone's markup: for the root, a narrowed child or
\* several nodes, the listeners and the bound data of the i-th selected node
\* are copied to that counterpart, so the clone's getData(counterpart) equals
\* the original's getData(node).
C24_ClonePairsByPosition ==
  [][ last'.op = "clone"
        => /\ last'.err = "none"
           /\ LET w == last'.w
                  c == last'.ret
                  from == Subtree(kids, root[w])
                  to == Subtree(kids', root'[c])
              IN \A i \in DOMAIN last'.sel :
                   last'.sel[i] \in Range(from) =>
                     LET n == last'.sel[i]
                         cp == to[IndexOf(from, n)]
                     IN /\ (IF cp \in DOMAIN data'[c] THEN data'[c][cp] ELSE "undefined")
                             = GetData(w, n)
                        /\ \A key \in KeysIn(eventListeners[w], n) :
                             RegisteredIn(eventListeners'[c], cp, key)
                               = Registered(w, n, key) ]_vars

Min(a, b) == IF a < b THEN a ELSE b

\* C25: for a selection of n nodes and a dataset of length m, data(dataset, cb)
\* binds dataset[i] to the i-th selected node for every i < min(n, m), replacing
\* an earlier value, and invokes cb(node_i, dataset[i], i) once for each such i
\* in increasing order; the nodes at indices >= m get no binding, and the
\* selection is unchanged.
C25_DataZipsShortest ==
  [][ last'.op = "data"
        => LET w == last'.w
               sel == last'.sel
               ds == last'.dataset
               k == Min(Len(sel), Len(ds))
           IN /\ \A i \in 1..k :
                   sel[i] \in DOMAIN data'[w] /\ data'[w][sel[i]] = ds[i]
              /\ \A i \in (k + 1)..Len(sel) :
                   /\ (sel[i] \in DOMAIN data'[w]) = (sel[i] \in DOMAIN data[w])
                   /\ sel[i] \in DOMAIN data[w] => data'[w][sel[i]] = data[w][sel[i]]
              /\ last'.cb # "none" =>
                   last'.log = [i \in 1..k |->
                                  [node |-> sel[i], datum |-> ds[i], index |-> i - 1]]
              /\ nodes'[w] = sel
              /\ last'.ret = w ]_vars

\* data(dataset, cb) with one datum on two selected nodes: one call of cb, for
\* the first node, and no data on the second.
C25_Witness ==
  /\ last.op = "data" /\ last.cb = "setText"
  /\ Len(last.sel) = 2 /\ Len(last.dataset) = 1
  /\ last.log = <<[node |-> last.sel[1], datum |-> last.dataset[1], index |-> 0]>>
  /\ GetData(last.w, last.sel[1]) = last.dataset[1]
  /\ GetData(last.w, last.sel[2]) = "undefined"

\* C26: for every name c and every selected node, after toggle(c, true) the
\* node's class list contains c and after toggle(c, false) it does not,
\* whatever attributes the node carries and whether it is an HTML or an SVG
\* element.
C26_ToggleSetsClass ==
  [][ last'.op = "toggle"
        => \A i \in DOMAIN last'.sel :
             Contains(props', last'.sel[i], last'.arg) = last'.flag ]_vars

\* C27: transition(duration, properties, easing) sets, on every selected node,
\* the transition to "all <duration>ms <easing>" and each property given in
\* properties to its given value.
C27_TransitionSetsProperties ==
  [][ last'.op = "transition"
        => \A i \in DOMAIN last'.sel :
             /\ GetPropertyValue(props', last'.sel[i], "transition")
                  = TransitionText(last'.duration, last'.arg)
             /\ \A key \in DOMAIN last'.properties :
                  GetPropertyValue(props', last'.sel[i], key)
                    = last'.properties[key] ]_vars

\* C28 as stated: fromElement(n1, ..., nk) changes the instance registry only
\* at the keys n1..nk, no other node gains or loses an entry; likewise
\* append(tag) adds entries only for the elements it created.
C28_RegistryFrame ==
  [][ (last'.op \in {"fromElement", "append"} /\ last'.err = "none")
        => \A n \in Node \ Range(last'.els) : instances'[n] = instances[n] ]_vars

\* C28, amended: the only other key that changes is the temporary <div> root
\* the call builds its wrapper around, a new node that no wrapper keeps; it is
\* registered to the new wrapper.
C28_RegistryFrameButTempRoot ==
  [][ (last'.op \in {"fromElement", "append"} /\ last'.err = "none")
        => /\ \A i \in DOMAIN last'.els : instances'[last'.els[i]] = last'.ret
           /\ \A n \in Node \ Range(last'.els) :
                instances'[n] # instances[n]
                  => /\ n = nNodes'
                     /\ n \notin Created
                     /\ tag'[n] = "div"
                     /\ n \notin Held'
                     /\ instances'[n] = last'.ret ]_vars

\* fromElement has taken a node over from another wrapper while a third node
\* stays registered to a wrapper of its own.
C28_Witness ==
  /\ last.op = "fromElement" /\ last.err = "none"
  /\ last.owners[1] \in Live \ {last.ret}
  /\ \E n \in Created \ Range(last.els) :
       /\ tag[n] # "div"
       /\ instances[n] \in Live \ {last.ret}

\* C29: when two wrappers A and B wrap the same node n, listener and data
\* bookkeeping is per wrapper: A.off(spec) and A.remove() detach only callbacks
\* registered through A, so a callback registered through B.on stays natively
\* attached to n and in B's registry, while A.remove() deletes the
\* instance-registry entry of n even though it points to B.
C29_BookkeepingPerWrapper ==
  [][ last'.op \in {"off", "remove"}
        => LET A == last'.w
           IN /\ \A B \in Live \ {A} :
                   /\ data'[B] = data[B]
                   /\ \A n \in Range(last'.sel) \cap Range(nodes[B]) :
                        \A key \in KeysIn(eventListeners[B], n) :
                          \A cb \in Registered(B, n, key) :
                            /\ cb \in RegisteredIn(eventListeners'[B], n, key)
                            /\ Attached(n, EventType(key), cb)
                                 => \E l \in native'[n] :
                                      l.type = EventType(key) /\ l.cb = cb
              /\ last'.op = "remove"
                   => \A n \in Range(last'.sel) : instances'[n] = NoWrapper ]_vars

====
